---------------------------- MODULE Spec2Model ----------------------------
(***************************************************************************)
(* Model of pkg/snowflake/grant.go: the grant builders (one constructor    *)
(* per object kind), the executables obtained from them through Role and   *)
(* Share, and the SQL text rendered by Show, Grant and Revoke.             *)
(*                                                                         *)
(* Go strings are TLA+ strings; fmt.Sprintf and strings.Join are computed  *)
(* character by character the way the library computes them.               *)
(***************************************************************************)
EXTENDS Integers, Sequences, FiniteSets, TLC

(***************************************************************************)
(* Bounds and input sets                                                   *)
(***************************************************************************)
MaxArgs == 2

MaxExecs == 2

Dbs == {"DB"}

Schemas == {"SCH"}

\* Names of account-level objects (database, warehouse, resource monitor,
\* integration), of schema-level objects, and of functions and procedures.
TopNames == {"WH1"}

Objects == {"T", "V"}

Routines == {"F"}

ArgTypes == {"NUMBER", "VARCHAR"}

RoleNames == {"ADMIN", "ANALYST"}

ShareNames == {"PARTNER"}

Privileges == {"OWNERSHIP", "ownership", "SELECT"}

ArgLists == UNION {[1..k -> ArgTypes] : k \in 0..MaxArgs}

(***************************************************************************)
(* grantType and granteeType constants                                     *)
(***************************************************************************)
accountType == "ACCOUNT"

resourceMonitorType == "RESOURCE MONITOR"

integrationType == "INTEGRATION"

databaseType == "DATABASE"

schemaType == "SCHEMA"

stageType == "STAGE"

viewType == "VIEW"

materializedViewType == "MATERIALIZED VIEW"

tableType == "TABLE"

warehouseType == "WAREHOUSE"

externalTableType == "EXTERNAL TABLE"

fileFormatType == "FILE FORMAT"

functionType == "FUNCTION"

procedureType == "PROCEDURE"

sequenceType == "SEQUENCE"

streamType == "STREAM"

roleType == "ROLE"

shareType == "SHARE"

userType == "USER"

(***************************************************************************)
(* Library functions                                                       *)
(***************************************************************************)

\* Position of the first %v verb of template, 0 when it has none.
VerbAt(template) ==
    LET at == {i \in 1..(Len(template) - 1) : SubSeq(template, i, i + 1) = "%v"}
    IN  IF at = {} THEN 0 ELSE CHOOSE i \in at : \A j \in at : i <= j

\* The template cut at its verbs: the literal runs and the %v verbs, in order.
RECURSIVE ParseFormat(_)
ParseFormat(template) ==
    LET i == VerbAt(template)
    IN  IF i = 0 THEN (IF template = "" THEN <<>> ELSE <<template>>)
        ELSE (IF i = 1 THEN <<>> ELSE <<SubSeq(template, 1, i - 1)>>)
             \o <<"%v">> \o ParseFormat(SubSeq(template, i + 2, Len(template)))

\* The format strings of grant.go, and their parse, computed once.
Formats ==
    {"\"%v\"", "\"%v\".\"%v\"", "\"%v\".\"%v\".\"%v\"",
     "\"%v\".\"%v\".\"%v\"(%v)", "SHOW GRANTS ON %v %v",
     "GRANT %v ON %v %v TO %v \"%v\" COPY CURRENT GRANTS",
     "GRANT %v ON %v %v TO %v \"%v\" WITH GRANT OPTION",
     "GRANT %v ON %v %v TO %v \"%v\"",
     "REVOKE %v ON %v %v FROM %v \"%v\"",
     "SHOW GRANTS OF %v \"%v\""}

Parsed == [t \in Formats |-> ParseFormat(t)]

\* The literal runs copied, every %v replaced by the next operand verbatim.
RECURSIVE Fill(_, _)
Fill(pieces, a) ==
    IF pieces = <<>> THEN ""
    ELSE IF Head(pieces) = "%v"
         THEN (IF a = <<>> THEN "%!v(MISSING)" ELSE Head(a))
              \o Fill(Tail(pieces), IF a = <<>> THEN a ELSE Tail(a))
         ELSE Head(pieces) \o Fill(Tail(pieces), a)

\* fmt.Sprintf restricted to the %v verb applied to string operands.
Sprintf(template, a) ==
    Fill(IF template \in Formats THEN Parsed[template]
         ELSE ParseFormat(template), a)

\* The loop of strings.Join: the elements after the first, each preceded by
\* the separator.
RECURSIVE JoinRest(_, _)
JoinRest(elems, sep) ==
    IF elems = <<>> THEN ""
    ELSE sep \o Head(elems) \o JoinRest(Tail(elems), sep)

\* strings.Join writing the separator after every element.
Join_Trailing(elems, sep) ==
    IF elems = <<>> THEN "" ELSE JoinRest(elems, sep) \o sep

\* strings.Join
Join(elems, sep) ==
    IF Len(elems) = 0 THEN ""
    ELSE IF Len(elems) = 1 THEN elems[1]
    ELSE elems[1] \o JoinRest(Tail(elems), sep)

(***************************************************************************)
(* Constructors.  A builder is a record of its three fields plus the Go    *)
(* type that implements GrantBuilder (impl).                               *)
(***************************************************************************)
CurrentGrantBuilder(name, qualifiedName, grantType) ==
    [impl |-> "CurrentGrantBuilder", name |-> name,
     qualifiedName |-> qualifiedName, grantType |-> grantType]

CurrentMaterializedViewGrantBuilder(name, qualifiedName, grantType) ==
    [impl |-> "CurrentMaterializedViewGrantBuilder", name |-> name,
     qualifiedName |-> qualifiedName, grantType |-> grantType]

AccountGrant == CurrentGrantBuilder("", "", accountType)

DatabaseGrant(name) ==
    CurrentGrantBuilder(name, Sprintf("\"%v\"", <<name>>), databaseType)

SchemaGrant(db, schema) ==
    CurrentGrantBuilder(schema,
        Sprintf("\"%v\".\"%v\"", <<db, schema>>), schemaType)

StageGrant(db, schema, stage) ==
    CurrentGrantBuilder(stage,
        Sprintf("\"%v\".\"%v\".\"%v\"", <<db, schema, stage>>), stageType)

ViewGrant(db, schema, view) ==
    CurrentGrantBuilder(view,
        Sprintf("\"%v\".\"%v\".\"%v\"", <<db, schema, view>>), viewType)

MaterializedViewGrant(db, schema, view) ==
    CurrentMaterializedViewGrantBuilder(view,
        Sprintf("\"%v\".\"%v\".\"%v\"", <<db, schema, view>>),
        materializedViewType)

TableGrant(db, schema, table) ==
    CurrentGrantBuilder(table,
        Sprintf("\"%v\".\"%v\".\"%v\"", <<db, schema, table>>), tableType)

ResourceMonitorGrant(w) ==
    CurrentGrantBuilder(w, Sprintf("\"%v\"", <<w>>), resourceMonitorType)

IntegrationGrant(w) ==
    CurrentGrantBuilder(w, Sprintf("\"%v\"", <<w>>), integrationType)

\* WarehouseGrant qualified as a schema-level object.
WarehouseGrant_Qualified(w) ==
    CurrentGrantBuilder(w,
        Sprintf("\"%v\".\"%v\".\"%v\"", <<"", "", w>>), warehouseType)

WarehouseGrant(w) ==
    CurrentGrantBuilder(w, Sprintf("\"%v\"", <<w>>), warehouseType)

ExternalTableGrant(db, schema, externalTable) ==
    CurrentGrantBuilder(externalTable,
        Sprintf("\"%v\".\"%v\".\"%v\"", <<db, schema, externalTable>>),
        externalTableType)

FileFormatGrant(db, schema, fileFormat) ==
    CurrentGrantBuilder(fileFormat,
        Sprintf("\"%v\".\"%v\".\"%v\"", <<db, schema, fileFormat>>),
        fileFormatType)

FunctionGrant(db, schema, function, argumentTypes) ==
    CurrentGrantBuilder(function,
        Sprintf("\"%v\".\"%v\".\"%v\"(%v)",
                <<db, schema, function, Join(argumentTypes, ", ")>>),
        functionType)

ProcedureGrant(db, schema, procedure, argumentTypes) ==
    CurrentGrantBuilder(procedure,
        Sprintf("\"%v\".\"%v\".\"%v\"(%v)",
                <<db, schema, procedure, Join(argumentTypes, ", ")>>),
        procedureType)

SequenceGrant(db, schema, sequence) ==
    CurrentGrantBuilder(sequence,
        Sprintf("\"%v\".\"%v\".\"%v\"", <<db, schema, sequence>>),
        sequenceType)

\* StreamGrant with the identifiers left unquoted.
StreamGrant_Unquoted(db, schema, stream) ==
    CurrentGrantBuilder(stream,
        Sprintf("%v.%v.%v", <<db, schema, stream>>), streamType)

StreamGrant(db, schema, stream) ==
    CurrentGrantBuilder(stream,
        Sprintf("\"%v\".\"%v\".\"%v\"", <<db, schema, stream>>), streamType)

(***************************************************************************)
(* Constructor calls a caller can make with the bounded inputs, and the    *)
(* builder each one returns.                                               *)
(***************************************************************************)
NoArg == {"AccountGrant"}

OneArg == {"DatabaseGrant", "ResourceMonitorGrant", "IntegrationGrant",
           "WarehouseGrant"}

TwoArg == {"SchemaGrant"}

ThreeArg == {"StageGrant", "ViewGrant", "MaterializedViewGrant",
             "TableGrant", "ExternalTableGrant", "FileFormatGrant",
             "SequenceGrant", "StreamGrant"}

FourArg == {"FunctionGrant", "ProcedureGrant"}

Call(fn, db, schema, name, argumentTypes) ==
    [fn |-> fn, db |-> db, schema |-> schema, name |-> name,
     argumentTypes |-> argumentTypes]

ConstructorCalls ==
    {Call(fn, "", "", "", <<>>) : fn \in NoArg}
    \cup {Call(fn, "", "", n, <<>>) : fn \in OneArg, n \in TopNames}
    \cup {Call(fn, d, s, s, <<>>) : fn \in TwoArg, d \in Dbs, s \in Schemas}
    \cup {Call(fn, d, s, n, <<>>) :
            fn \in ThreeArg, d \in Dbs, s \in Schemas, n \in Objects}
    \cup UNION {{Call(fn, d, s, n, a) : fn \in FourArg, a \in ArgLists} :
                  d \in Dbs, s \in Schemas, n \in Routines}

Construct(c) ==
    CASE c.fn = "AccountGrant" -> AccountGrant
      [] c.fn = "DatabaseGrant" -> DatabaseGrant(c.name)
      [] c.fn = "SchemaGrant" -> SchemaGrant(c.db, c.schema)
      [] c.fn = "StageGrant" -> StageGrant(c.db, c.schema, c.name)
      [] c.fn = "ViewGrant" -> ViewGrant(c.db, c.schema, c.name)
      [] c.fn = "MaterializedViewGrant" ->
             MaterializedViewGrant(c.db, c.schema, c.name)
      [] c.fn = "TableGrant" -> TableGrant(c.db, c.schema, c.name)
      [] c.fn = "ResourceMonitorGrant" -> ResourceMonitorGrant(c.name)
      [] c.fn = "IntegrationGrant" -> IntegrationGrant(c.name)
      [] c.fn = "WarehouseGrant" -> WarehouseGrant(c.name)
      [] c.fn = "ExternalTableGrant" ->
             ExternalTableGrant(c.db, c.schema, c.name)
      [] c.fn = "FileFormatGrant" -> FileFormatGrant(c.db, c.schema, c.name)
      [] c.fn = "FunctionGrant" ->
             FunctionGrant(c.db, c.schema, c.name, c.argumentTypes)
      [] c.fn = "ProcedureGrant" ->
             ProcedureGrant(c.db, c.schema, c.name, c.argumentTypes)
      [] c.fn = "SequenceGrant" -> SequenceGrant(c.db, c.schema, c.name)
      [] c.fn = "StreamGrant" -> StreamGrant(c.db, c.schema, c.name)

(***************************************************************************)
(* Builder methods                                                         *)
(***************************************************************************)
CurrentGrantBuilder_Name(gb) == gb.name

CurrentGrantBuilder_GrantType(gb) == gb.grantType

CurrentGrantBuilder_Show(gb) ==
    Sprintf("SHOW GRANTS ON %v %v", <<gb.grantType, gb.qualifiedName>>)

CurrentMaterializedViewGrantBuilder_Name(gb) == gb.name

CurrentMaterializedViewGrantBuilder_GrantType(gb) == gb.grantType

CurrentMaterializedViewGrantBuilder_Show(gb) ==
    Sprintf("SHOW GRANTS ON %v %v", <<gb.grantType, gb.qualifiedName>>)

CurrentGrantExecutable(grantName, grantType, granteeName, granteeType) ==
    [grantName |-> grantName, grantType |-> grantType,
     granteeName |-> granteeName, granteeType |-> granteeType]

CurrentMaterializedViewGrantBuilder_Role(gb, n) ==
    CurrentGrantExecutable(gb.qualifiedName, viewType, n, roleType)

\* Share keeping the keyword of the builder.
CurrentMaterializedViewGrantBuilder_Share_OwnType(gb, n) ==
    CurrentGrantExecutable(gb.qualifiedName, gb.grantType, n, shareType)

CurrentMaterializedViewGrantBuilder_Share(gb, n) ==
    CurrentGrantExecutable(gb.qualifiedName, viewType, n, shareType)

\* Role recording the bare name of the object instead of the qualified one.
CurrentGrantBuilder_Role_BareName(gb, n) ==
    CurrentGrantExecutable(gb.name, gb.grantType, n, roleType)

CurrentGrantBuilder_Role(gb, n) ==
    CurrentGrantExecutable(gb.qualifiedName, gb.grantType, n, roleType)

\* Share copied from Role with the grantee type left as it was.
CurrentGrantBuilder_Share_AsRole(gb, n) ==
    CurrentGrantExecutable(gb.qualifiedName, gb.grantType, n, roleType)

CurrentGrantBuilder_Share(gb, n) ==
    CurrentGrantExecutable(gb.qualifiedName, gb.grantType, n, shareType)

\* Dispatch of the GrantBuilder interface on the implementing type.
GrantBuilder_Name(gb) ==
    IF gb.impl = "CurrentMaterializedViewGrantBuilder"
    THEN CurrentMaterializedViewGrantBuilder_Name(gb)
    ELSE CurrentGrantBuilder_Name(gb)

GrantBuilder_GrantType(gb) ==
    IF gb.impl = "CurrentMaterializedViewGrantBuilder"
    THEN CurrentMaterializedViewGrantBuilder_GrantType(gb)
    ELSE CurrentGrantBuilder_GrantType(gb)

GrantBuilder_Show(gb) ==
    IF gb.impl = "CurrentMaterializedViewGrantBuilder"
    THEN CurrentMaterializedViewGrantBuilder_Show(gb)
    ELSE CurrentGrantBuilder_Show(gb)

GrantBuilder_Role(gb, n) ==
    IF gb.impl = "CurrentMaterializedViewGrantBuilder"
    THEN CurrentMaterializedViewGrantBuilder_Role(gb, n)
    ELSE CurrentGrantBuilder_Role(gb, n)

GrantBuilder_Share(gb, n) ==
    IF gb.impl = "CurrentMaterializedViewGrantBuilder"
    THEN CurrentMaterializedViewGrantBuilder_Share(gb, n)
    ELSE CurrentGrantBuilder_Share(gb, n)

(***************************************************************************)
(* Executable methods                                                      *)
(***************************************************************************)
\* The template chosen with the grant option tested before the privilege.
GrantTemplate_OptionFirst(p, w) ==
    IF w
    THEN "GRANT %v ON %v %v TO %v \"%v\" WITH GRANT OPTION"
    ELSE IF p = "OWNERSHIP"
         THEN "GRANT %v ON %v %v TO %v \"%v\" COPY CURRENT GRANTS"
         ELSE "GRANT %v ON %v %v TO %v \"%v\""

GrantTemplate(p, w) ==
    IF p = "OWNERSHIP"
    THEN "GRANT %v ON %v %v TO %v \"%v\" COPY CURRENT GRANTS"
    ELSE IF w
         THEN "GRANT %v ON %v %v TO %v \"%v\" WITH GRANT OPTION"
         ELSE "GRANT %v ON %v %v TO %v \"%v\""

CurrentGrantExecutable_Grant(ge, p, w) ==
    Sprintf(GrantTemplate(p, w),
            <<p, ge.grantType, ge.grantName, ge.granteeType, ge.granteeName>>)

\* Revoke rendered from the template Grant chooses.
CurrentGrantExecutable_Revoke_Templated(ge, p) ==
    Sprintf(IF p = "OWNERSHIP"
            THEN "REVOKE %v ON %v %v FROM %v \"%v\" COPY CURRENT GRANTS"
            ELSE "REVOKE %v ON %v %v FROM %v \"%v\"",
            <<p, ge.grantType, ge.grantName, ge.granteeType, ge.granteeName>>)

CurrentGrantExecutable_Revoke(ge, p) ==
    Sprintf("REVOKE %v ON %v %v FROM %v \"%v\"",
            <<p, ge.grantType, ge.grantName, ge.granteeType, ge.granteeName>>)

CurrentGrantExecutable_Show(ge) ==
    Sprintf("SHOW GRANTS OF %v \"%v\"", <<ge.granteeType, ge.granteeName>>)

\* One executable shared by every call instead of a new one per call.
NewExecutable_Shared(heap, ge) == [i \in 1..(Len(heap) + 1) |-> ge]

\* &CurrentGrantExecutable{...}: Role and Share return a pointer to a newly
\* allocated value; the values returned earlier stay as they are.
NewExecutable(heap, ge) == Append(heap, ge)

(***************************************************************************)
(* State                                                                   *)
(*   gb     the builder                                                    *)
(*   execs  the executables obtained from gb so far, in order of creation  *)
(*   made   the constructor call that returned gb            (history)     *)
(*   via    for each executable, the call that returned it   (history)     *)
(*   last   the most recent method call: the method, its receiver (0 the   *)
(*          builder, i the i-th executable), its arguments, the string it  *)
(*          returned, and whether the call before it was Grant(_, true) on *)
(*          the same receiver (afterOption)                                *)
(***************************************************************************)
VARIABLES gb, execs, made, via, last

vars == <<gb, execs, made, via, last>>

NoCall ==
    [op |-> "none", recv |-> 0, p |-> "", w |-> FALSE, out |-> "",
     afterOption |-> FALSE]

Returned(op, recv, p, w, out) ==
    [op |-> op, recv |-> recv, p |-> p, w |-> w, out |-> out,
     afterOption |-> last.op = "Grant" /\ last.w /\ last.recv = recv]

Init ==
    /\ made \in ConstructorCalls
    /\ gb = Construct(made)
    /\ execs = <<>>
    /\ via = <<>>
    /\ last = NoCall

Name ==
    /\ last' = Returned("Name", 0, "", FALSE, GrantBuilder_Name(gb))
    /\ UNCHANGED <<gb, execs, made, via>>

GrantType ==
    /\ last' = Returned("GrantType", 0, "", FALSE, GrantBuilder_GrantType(gb))
    /\ UNCHANGED <<gb, execs, made, via>>

Show ==
    /\ last' = Returned("Show", 0, "", FALSE, GrantBuilder_Show(gb))
    /\ UNCHANGED <<gb, execs, made, via>>

Role(n) ==
    /\ Len(execs) < MaxExecs
    /\ execs' = NewExecutable(execs, GrantBuilder_Role(gb, n))
    /\ via' = Append(via, [method |-> "Role", n |-> n])
    /\ last' = Returned("Role", Len(execs) + 1, "", FALSE, "")
    /\ UNCHANGED <<gb, made>>

Share(n) ==
    /\ Len(execs) < MaxExecs
    /\ execs' = NewExecutable(execs, GrantBuilder_Share(gb, n))
    /\ via' = Append(via, [method |-> "Share", n |-> n])
    /\ last' = Returned("Share", Len(execs) + 1, "", FALSE, "")
    /\ UNCHANGED <<gb, made>>

Grant(i, p, w) ==
    /\ i \in 1..Len(execs)
    /\ last' = Returned("Grant", i, p, w,
                        CurrentGrantExecutable_Grant(execs[i], p, w))
    /\ UNCHANGED <<gb, execs, made, via>>

Revoke(i, p) ==
    /\ i \in 1..Len(execs)
    /\ last' = Returned("Revoke", i, p, FALSE,
                        CurrentGrantExecutable_Revoke(execs[i], p))
    /\ UNCHANGED <<gb, execs, made, via>>

ExecShow(i) ==
    /\ i \in 1..Len(execs)
    /\ last' = Returned("ExecShow", i, "", FALSE,
                        CurrentGrantExecutable_Show(execs[i]))
    /\ UNCHANGED <<gb, execs, made, via>>

Next ==
    \/ Name
    \/ GrantType
    \/ Show
    \/ \E n \in RoleNames : Role(n)
    \/ \E n \in ShareNames : Share(n)
    \/ \E i \in 1..MaxExecs, p \in Privileges, w \in BOOLEAN : Grant(i, p, w)
    \/ \E i \in 1..MaxExecs, p \in Privileges : Revoke(i, p)
    \/ \E i \in 1..MaxExecs : ExecShow(i)

Spec == Init /\ [][Next]_vars

TypeOK ==
    /\ made \in ConstructorCalls
    /\ Len(execs) <= MaxExecs
    /\ Len(via) = Len(execs)
    /\ last.recv \in 0..Len(execs)

(***************************************************************************)
(* Vocabulary of the properties                                            *)
(***************************************************************************)
Contains(s, sub) ==
    \E i \in 1..(Len(s) - Len(sub) + 1) : SubSeq(s, i, i + Len(sub) - 1) = sub

HasSuffix(s, suffix) ==
    /\ Len(s) >= Len(suffix)
    /\ SubSeq(s, Len(s) - Len(suffix) + 1, Len(s)) = suffix

Quoted(s) == "\"" \o s \o "\""

\* The SQL keyword of the object kind each constructor is for.
Keyword ==
    [fn \in NoArg \cup OneArg \cup TwoArg \cup ThreeArg \cup FourArg |->
       CASE fn = "AccountGrant" -> "ACCOUNT"
         [] fn = "ResourceMonitorGrant" -> "RESOURCE MONITOR"
         [] fn = "IntegrationGrant" -> "INTEGRATION"
         [] fn = "DatabaseGrant" -> "DATABASE"
         [] fn = "SchemaGrant" -> "SCHEMA"
         [] fn = "StageGrant" -> "STAGE"
         [] fn = "ViewGrant" -> "VIEW"
         [] fn = "MaterializedViewGrant" -> "MATERIALIZED VIEW"
         [] fn = "TableGrant" -> "TABLE"
         [] fn = "WarehouseGrant" -> "WAREHOUSE"
         [] fn = "ExternalTableGrant" -> "EXTERNAL TABLE"
         [] fn = "FileFormatGrant" -> "FILE FORMAT"
         [] fn = "FunctionGrant" -> "FUNCTION"
         [] fn = "ProcedureGrant" -> "PROCEDURE"
         [] fn = "SequenceGrant" -> "SEQUENCE"
         [] fn = "StreamGrant" -> "STREAM"]

\* The object keyword in the statements of an executable.
ExecKeyword ==
    IF made.fn = "MaterializedViewGrant" THEN "VIEW" ELSE Keyword[made.fn]

\* The grantee keyword and the quoted grantee name of the i-th executable.
GranteeKind(i) == IF via[i].method = "Role" THEN "ROLE" ELSE "SHARE"

Grantee(i) == GranteeKind(i) \o " " \o Quoted(via[i].n)

ThreeSegments == Quoted(made.db) \o "." \o Quoted(made.schema) \o "."
                 \o Quoted(made.name)

OnBuilder(op) == last.op = op /\ last.recv = 0

OnExec(op) == last.op = op /\ last.recv \in 1..Len(execs)

(***************************************************************************)
(* C1  For every object kind and every choice of name parts, the builder's *)
(* Show() returns exactly "SHOW GRANTS ON <KEYWORD> <qualifiedName>" with  *)
(* no extra or missing whitespace; AccountGrant().Show() returns exactly   *)
(* "SHOW GRANTS ON ACCOUNT", with no trailing space.                       *)
(***************************************************************************)
C1_ShowOnObject ==
    OnBuilder("Show") =>
        /\ last.out = IF made.fn = "AccountGrant"
                      THEN "SHOW GRANTS ON ACCOUNT"
                      ELSE "SHOW GRANTS ON " \o Keyword[made.fn] \o " "
                           \o gb.qualifiedName
        /\ ~HasSuffix(last.out, " ")

(***************************************************************************)
(* C2  For schema, stage, view, table, external table, file format,        *)
(* sequence and stream, the qualifiedName (as rendered by Show(), Grant()  *)
(* and Revoke()) is exactly three double-quoted segments joined by dots,   *)
(* "<db>"."<schema>"."<object>".                                           *)
(***************************************************************************)
C2Kinds == {"SchemaGrant", "StageGrant", "ViewGrant", "TableGrant",
            "ExternalTableGrant", "FileFormatGrant", "SequenceGrant",
            "StreamGrant"}

NameParts == Dbs \cup Schemas \cup TopNames \cup Objects \cup Routines

\* The statement of C2 as it stands: schema included.
C2_ThreeSegmentsEveryKind ==
    made.fn \in C2Kinds =>
        \E o \in NameParts :
            gb.qualifiedName = Quoted(made.db) \o "." \o Quoted(made.schema)
                               \o "." \o Quoted(o)

C2_Expected ==
    IF made.fn = "SchemaGrant"
    THEN Quoted(made.db) \o "." \o Quoted(made.schema)
    ELSE ThreeSegments

\* C2 as amended: stage, view, table, external table, file format, sequence
\* and stream have the three quoted segments "<db>"."<schema>"."<object>";
\* schema has the two quoted segments "<db>"."<schema>"; Show() ends with
\* that name and Grant() and Revoke() carry it between two spaces.
C2_QualifiedSegments ==
    made.fn \in C2Kinds =>
        /\ gb.qualifiedName = C2_Expected
        /\ OnBuilder("Show") => HasSuffix(last.out, " " \o C2_Expected)
        /\ OnExec("Grant") \/ OnExec("Revoke") =>
               Contains(last.out, " " \o C2_Expected \o " ")

C2_Witness ==
    /\ made.fn = "SchemaGrant"
    /\ OnBuilder("Show")
    /\ last.out = "SHOW GRANTS ON SCHEMA \"DB\".\"SCH\""

(***************************************************************************)
(* C3  A builder for database, warehouse, resource monitor or integration  *)
(* has a qualifiedName that is exactly one double-quoted segment, the      *)
(* account builder has an empty name and an empty qualifiedName, and none  *)
(* of account, warehouse, resource monitor, integration has a dot-joined   *)
(* qualifiedName (the name parts holding no dots or quotes).               *)
(***************************************************************************)
C3_SingleSegment ==
    /\ made.fn \in OneArg =>
           /\ gb.qualifiedName = Quoted(made.name)
           /\ gb.name = made.name
    /\ made.fn = "AccountGrant" => gb.name = "" /\ gb.qualifiedName = ""
    /\ made.fn \in {"AccountGrant", "WarehouseGrant", "ResourceMonitorGrant",
                    "IntegrationGrant"} =>
           ~Contains(gb.qualifiedName, ".")
    /\ made.fn \in NoArg \cup OneArg /\ OnBuilder("Name") =>
           last.out = made.name

C3_Witness ==
    /\ made.fn = "WarehouseGrant"
    /\ OnBuilder("Name")
    /\ last.out = "WH1"
    /\ gb.qualifiedName = "\"WH1\""

(***************************************************************************)
(* C4  For FunctionGrant and ProcedureGrant the qualifiedName is           *)
(* "<db>"."<schema>"."<name>"( followed by the argument types verbatim and *)
(* unquoted, in the given order, joined by comma-space, followed by ); an  *)
(* empty list gives (), a one-element list has no separator.               *)
(***************************************************************************)
RECURSIVE ArgsText(_)
ArgsText(a) ==
    IF Len(a) = 0 THEN ""
    ELSE IF Len(a) = 1 THEN a[1]
    ELSE ArgsText(SubSeq(a, 1, Len(a) - 1)) \o ", " \o a[Len(a)]

C4_RoutineSignature ==
    made.fn \in FourArg =>
        /\ gb.qualifiedName =
               ThreeSegments \o "(" \o ArgsText(made.argumentTypes) \o ")"
        /\ made.argumentTypes = <<>> => HasSuffix(gb.qualifiedName, "\"()")
        /\ Len(made.argumentTypes) = 1 =>
               /\ ~Contains(gb.qualifiedName, ",")
               /\ HasSuffix(gb.qualifiedName,
                            "\"(" \o made.argumentTypes[1] \o ")")
        /\ OnBuilder("Show") =>
               HasSuffix(last.out,
                         "(" \o ArgsText(made.argumentTypes) \o ")")

C4_Witness ==
    /\ made.fn = "FunctionGrant"
    /\ made.argumentTypes = <<"NUMBER", "VARCHAR">>
    /\ OnBuilder("Show")
    /\ last.out = "SHOW GRANTS ON FUNCTION \"DB\".\"SCH\".\"F\"(NUMBER, VARCHAR)"

(***************************************************************************)
(* C5  For every executable, Grant("OWNERSHIP", true) and                  *)
(* Grant("OWNERSHIP", false) return the identical string                   *)
(* GRANT OWNERSHIP ON <kind-keyword> <qualifiedName> TO <GRANTEE-KIND>     *)
(* "<granteeName>" COPY CURRENT GRANTS, which never contains WITH GRANT    *)
(* OPTION; the match on the privilege is exact and case-sensitive, so any  *)
(* other spelling never receives COPY CURRENT GRANTS.                      *)
(***************************************************************************)
C5_Ownership ==
    /\ OnExec("Grant") /\ last.p = "OWNERSHIP" =>
           /\ last.out = "GRANT OWNERSHIP ON " \o ExecKeyword \o " "
                         \o gb.qualifiedName \o " TO " \o Grantee(last.recv)
                         \o " COPY CURRENT GRANTS"
           /\ ~Contains(last.out, "WITH GRANT OPTION")
    /\ OnExec("Grant") /\ last.p # "OWNERSHIP" =>
           ~Contains(last.out, "COPY CURRENT GRANTS")
    /\ \A i \in 1..Len(execs) :
           CurrentGrantExecutable_Grant(execs[i], "OWNERSHIP", TRUE)
             = CurrentGrantExecutable_Grant(execs[i], "OWNERSHIP", FALSE)

C5_Witness ==
    /\ made.fn = "SchemaGrant"
    /\ OnExec("Grant")
    /\ last.p = "OWNERSHIP"
    /\ last.w
    /\ last.out = "GRANT OWNERSHIP ON SCHEMA \"DB\".\"SCH\" TO ROLE \"ADMIN\" COPY CURRENT GRANTS"

(***************************************************************************)
(* C6  For every executable and every privilege p other than exactly       *)
(* "OWNERSHIP", Grant(p, false) is exactly GRANT <p> ON <kind-keyword>     *)
(* <qualifiedName> TO <GRANTEE-KIND> "<granteeName>" with nothing after    *)
(* the closing quote, and Grant(p, true) is Grant(p, false) followed by    *)
(* " WITH GRANT OPTION".                                                   *)
(***************************************************************************)
C6_PlainGrant(i, p) ==
    "GRANT " \o p \o " ON " \o ExecKeyword \o " " \o gb.qualifiedName
    \o " TO " \o Grantee(i)

C6_Grant ==
    OnExec("Grant") /\ last.p # "OWNERSHIP" =>
        /\ ~last.w => /\ last.out = C6_PlainGrant(last.recv, last.p)
                      /\ HasSuffix(last.out, Quoted(via[last.recv].n))
        /\ last.w => last.out = C6_PlainGrant(last.recv, last.p)
                                \o " WITH GRANT OPTION"

C6_Witness ==
    /\ made.fn = "TableGrant"
    /\ OnExec("Grant")
    /\ last.w
    /\ last.out = "GRANT SELECT ON TABLE \"DB\".\"SCH\".\"T\" TO ROLE \"ANALYST\" WITH GRANT OPTION"

(***************************************************************************)
(* C7  For every executable and every privilege p (OWNERSHIP included),    *)
(* Revoke(p) is exactly REVOKE <p> ON <kind-keyword> <qualifiedName> FROM  *)
(* <GRANTEE-KIND> "<granteeName>", with neither a WITH GRANT OPTION nor a  *)
(* COPY CURRENT GRANTS clause, whether or not Grant was called before on   *)
(* the same executable and with whatever flag.                             *)
(***************************************************************************)
C7_Revoke ==
    OnExec("Revoke") =>
        /\ last.out = "REVOKE " \o last.p \o " ON " \o ExecKeyword \o " "
                      \o gb.qualifiedName \o " FROM " \o Grantee(last.recv)
        /\ ~Contains(last.out, "WITH GRANT OPTION")
        /\ ~Contains(last.out, "COPY CURRENT GRANTS")

C7_Witness ==
    /\ OnExec("Revoke")
    /\ last.afterOption
    /\ last.p = "OWNERSHIP"
    /\ made.fn = "StageGrant"

(***************************************************************************)
(* C8  For a materialized-view builder, Show() and GrantType() use the     *)
(* keyword MATERIALIZED VIEW, while every executable obtained from it      *)
(* through Role or Share renders Grant and Revoke with the keyword VIEW    *)
(* and never MATERIALIZED VIEW: the text is that of ViewGrant with the     *)
(* same db, schema, name and grantee, and the builder's Show() differs.    *)
(***************************************************************************)
C8_ViewExec(i) ==
    IF via[i].method = "Role"
    THEN GrantBuilder_Role(ViewGrant(made.db, made.schema, made.name),
                           via[i].n)
    ELSE GrantBuilder_Share(ViewGrant(made.db, made.schema, made.name),
                            via[i].n)

C8_MaterializedView ==
    made.fn = "MaterializedViewGrant" =>
        /\ OnBuilder("Show") =>
               /\ last.out = "SHOW GRANTS ON MATERIALIZED VIEW "
                             \o ThreeSegments
               /\ last.out # GrantBuilder_Show(
                                ViewGrant(made.db, made.schema, made.name))
        /\ OnBuilder("GrantType") => last.out = "MATERIALIZED VIEW"
        /\ OnExec("Grant") \/ OnExec("Revoke") =>
               /\ Contains(last.out, " ON VIEW " \o ThreeSegments \o " ")
               /\ ~Contains(last.out, "MATERIALIZED VIEW")
        /\ OnExec("Grant") =>
               last.out = CurrentGrantExecutable_Grant(
                              C8_ViewExec(last.recv), last.p, last.w)
        /\ OnExec("Revoke") =>
               last.out = CurrentGrantExecutable_Revoke(
                              C8_ViewExec(last.recv), last.p)
        /\ OnExec("ExecShow") =>
               last.out = CurrentGrantExecutable_Show(C8_ViewExec(last.recv))

C8_Witness ==
    /\ made.fn = "MaterializedViewGrant"
    /\ OnExec("Grant")
    /\ last.out = "GRANT SELECT ON VIEW \"DB\".\"SCH\".\"V\" TO SHARE \"PARTNER\""

(***************************************************************************)
(* C9  Every executable has grantee kind ROLE when obtained through        *)
(* Role(n) and SHARE when obtained through Share(n), never USER; its       *)
(* Show() is exactly SHOW GRANTS OF <ROLE|SHARE> "<n>", whatever the       *)
(* object kind, the name parts or the privileges rendered before.          *)
(***************************************************************************)
C9_Grantee ==
    /\ \A i \in 1..Len(execs) :
           /\ execs[i].granteeType = GranteeKind(i)
           /\ execs[i].granteeType # userType
           /\ execs[i].granteeName = via[i].n
    /\ OnExec("ExecShow") =>
           last.out = "SHOW GRANTS OF " \o GranteeKind(last.recv) \o " "
                      \o Quoted(via[last.recv].n)

C9_Witness ==
    /\ made.fn = "WarehouseGrant"
    /\ OnExec("ExecShow")
    /\ last.afterOption
    /\ last.out = "SHOW GRANTS OF SHARE \"PARTNER\""

(***************************************************************************)
(* C10  After any sequence of Name, GrantType, Show, Role and Share calls  *)
(* on a builder and of Grant, Revoke and Show calls on its executables,    *)
(* the builder's fields and every executable's fields are as constructed;  *)
(* every call returns what the same call returns on a freshly constructed  *)
(* value, and creating a second executable does not alter an earlier one.  *)
(***************************************************************************)
C10_Fresh(i) ==
    IF via[i].method = "Role"
    THEN GrantBuilder_Role(Construct(made), via[i].n)
    ELSE GrantBuilder_Share(Construct(made), via[i].n)

C10_Immutable ==
    /\ gb = Construct(made)
    /\ \A i \in 1..Len(execs) : execs[i] = C10_Fresh(i)
    /\ OnBuilder("Name") => last.out = GrantBuilder_Name(Construct(made))
    /\ OnBuilder("GrantType") =>
           last.out = GrantBuilder_GrantType(Construct(made))
    /\ OnBuilder("Show") => last.out = GrantBuilder_Show(Construct(made))
    /\ OnExec("Grant") =>
           last.out = CurrentGrantExecutable_Grant(
                          C10_Fresh(last.recv), last.p, last.w)
    /\ OnExec("Revoke") =>
           last.out = CurrentGrantExecutable_Revoke(
                          C10_Fresh(last.recv), last.p)
    /\ OnExec("ExecShow") =>
           last.out = CurrentGrantExecutable_Show(C10_Fresh(last.recv))

C10_Witness ==
    /\ Len(execs) = 2
    /\ execs[1] # execs[2]
    /\ OnExec("Grant")
    /\ last.recv = 1
    /\ last.afterOption

=============================================================================
